---- MODULE Spec2Model ----
(***************************************************************************)
(* A model of pabot's coordination library, src/pabot/pabotlib.py:         *)
(* the coordinator primitives of class _PabotLib (named locks, the shared  *)
(* key/value store, the pool of value sets) and the recipes of the worker  *)
(* facade PabotLib that are built on them.                                 *)
(*                                                                         *)
(* Python values are modelled as follows.  None, True, False and raised    *)
(* exceptions are the strings "None", "True", "False", "KeyError", ...     *)
(* in the `ret` field of the record `last`, which keeps the most recent    *)
(* coordinator call and what it returned or raised.  A dict is a sequence  *)
(* of entries in its iteration order.                                      *)
(***************************************************************************)
EXTENDS Integers, Sequences, FiniteSets, TLC

VARIABLES
    python3,            \* TRUE: Python 3 semantics, FALSE: Python 2 (both supported, lines 18-22)
    locks,              \* _PabotLib._locks: entries [name, owner, count] in dict order
    values,             \* _PabotLib._values: entries [name, tags, data] in dict order
    owner_to_values,    \* _PabotLib._owner_to_values: caller -> reserved entry or None
    parallel_values,    \* _PabotLib._parallel_values: key -> value
    last,               \* the most recent coordinator call with its result
    held,               \* per lock and caller: successful acquires not yet released
    pc,                 \* per worker: where its facade call stands
    wkw,                \* per worker: the keyword of the recipe it is running
    exc,                \* per worker: the exception in flight, or "None"
    result,             \* per worker: keyword and outcome of its last finished recipe
    calls,              \* per worker: recipes finished so far
    executed,           \* per keyword: how often BuiltIn().run_keyword ran it
    kwout,              \* per keyword: how its last execution ended
    env,                \* the Robot variables and listener state of the worker's process
    observed,           \* per worker: the value its polling loop read last
    lock_name,          \* per worker: the lock name its call in progress works on
    facade_setname,     \* per worker: PabotLib._setname, "None" or the name of its set
    remote_libraries,   \* _PabotLib._remote_libraries: entries [name, port] in dict order
    instantiated,       \* per library name: how often TestLibrary(name) gave an instance
    servers,            \* the secondary endpoints started: [port, name]
    remotelib,          \* per worker: PabotLib.__remotelib is a Remote (TRUE) or None (FALSE)
    resolutions,        \* per worker: how often _remotelib built a Remote from ${PABOTLIBURI}
    up,                 \* the transport reaches the coordinator
    local_locks,        \* the facade's own _locks (it is a _PabotLib itself)
    local_parallel_values  \* the facade's own _parallel_values

coord == <<locks, values, owner_to_values, parallel_values>>

wvars == <<pc, wkw, exc, result, calls, executed, kwout, env, observed>>

libs == <<remote_libraries, instantiated, servers>>

facade == <<remotelib, resolutions, up, local_locks, local_parallel_values, facade_setname>>

vars == <<python3, coord, last, held, wvars, lock_name, libs, facade>>

(***************************************************************************)
(* Bounds and input sets.                                                  *)
(***************************************************************************)
MaxCount == 2

Callers == {"w1", "w2", "w3"}

LockNames == {"L1", "L2"}

\* Python's None where a value set (a dict) may stand.
None == [name |-> "None", tags |-> <<>>, data |-> "None"]

\* `had` is the value set the caller held when it made the call, `freed` the value
\* set that the call before this one released, when that call was a
\* release_value_set of another caller.
NoCall ==
    [op |-> "init", caller |-> "", name |-> "", tags |-> {}, ret |-> "None",
     had |-> None, freed |-> None]

Call(op, caller, name, tags, ret, had) ==
    [op |-> op, caller |-> caller, name |-> name, tags |-> tags, ret |-> ret,
     had |-> had,
     freed |-> IF last.op = "release_value_set" /\ last.caller # caller
               THEN last.had ELSE None]

\* Workers are told apart by their caller id, ${CALLER_ID}.
Workers == Callers

Keywords == {"k1", "k2"}

LibNames == {"lib1", "lib2", "lib3", "missing"}

\* Values of the key/value store and of Robot variables: str, int or None.
PyStr(s) == [type |-> "str", s |-> s, i |-> 0]

PyInt(i) == [type |-> "int", s |-> "", i |-> i]

PyNone == [type |-> "None", s |-> "", i |-> 0]

NoResult == [recipe |-> "", kw |-> "", out |-> "none"]

\* uri: ${PABOTLIBURI} is set (lines 202-208); last_level, queue_index, is_last:
\* ${PABOTLASTLEVEL}, ${PABOTQUEUEINDEX}, ${PABOTISLASTEXECUTIONINPOOL} (lines 33-35);
\* position: PabotLib._position (line 157).  Here only the coordinator address is set.
NoEnv ==
    [uri |-> TRUE, last_level |-> PyNone, position |-> <<>>,
     queue_index |-> PyNone, is_last |-> PyNone]

\* No worker has called a recipe yet, no library is shared, no facade has resolved
\* the coordinator's address.
InitWorkers ==
    /\ pc = [w \in Workers |-> "idle"]
    /\ wkw = [w \in Workers |-> ""]
    /\ exc = [w \in Workers |-> "None"]
    /\ result = [w \in Workers |-> NoResult]
    /\ calls = [w \in Workers |-> 0]
    /\ executed = [k \in Keywords |-> 0]
    /\ kwout = [k \in Keywords |-> "none"]
    /\ observed = [w \in Workers |-> PyNone]
    /\ lock_name = [w \in Workers |-> ""]
    /\ facade_setname = [w \in Workers |-> "None"]
    /\ remote_libraries = <<>>
    /\ instantiated = [n \in LibNames |-> 0]
    /\ servers = {}
    /\ remotelib = [w \in Workers |-> FALSE]
    /\ resolutions = [w \in Workers |-> 0]
    /\ up = TRUE
    /\ local_locks = <<>>
    /\ local_parallel_values = <<>>

(***************************************************************************)
(* Dict helpers: a dict is a sequence of entries with distinct names.      *)
(***************************************************************************)
Keys(d) == {d[i].name : i \in 1..Len(d)}

IndexOf(d, name) == CHOOSE i \in 1..Len(d) : d[i].name = name

Get(d, name) == d[IndexOf(d, name)]

Del(d, name) == SelectSeq(d, LAMBDA e : e.name # name)

(***************************************************************************)
(* _PabotLib.acquire_lock(name, caller_id), lines 71-77.                   *)
(***************************************************************************)
acquire_lock_noownercheck(lk, name, caller_id) ==
    LET lk1 == IF name \notin Keys(lk)
               THEN Append(lk, [name |-> name, owner |-> caller_id, count |-> 0])
               ELSE lk
        i == IndexOf(lk1, name)
    IN [locks |-> [lk1 EXCEPT ![i].count = @ + 1], ret |-> "True"]

acquire_lock(lk, name, caller_id) ==
    IF name \in Keys(lk) /\ caller_id # Get(lk, name).owner
    THEN [locks |-> lk, ret |-> "False"]
    ELSE LET lk1 == IF name \notin Keys(lk)
                    THEN Append(lk, [name |-> name, owner |-> caller_id, count |-> 0])
                    ELSE lk
             i == IndexOf(lk1, name)
         IN [locks |-> [lk1 EXCEPT ![i].count = @ + 1], ret |-> "True"]

(***************************************************************************)
(* _PabotLib.release_lock(name, caller_id), lines 79-83.  self._locks[name]*)
(* raises KeyError when there is no entry, the assert raises               *)
(* AssertionError when the owner differs; both happen before any write.    *)
(***************************************************************************)
release_lock_noassert(lk, name, caller_id) ==
    IF name \notin Keys(lk)
    THEN [locks |-> lk, ret |-> "KeyError"]
    ELSE LET i == IndexOf(lk, name)
             lk1 == [lk EXCEPT ![i].count = @ - 1]
         IN [locks |-> IF lk1[i].count = 0 THEN Del(lk1, name) ELSE lk1,
             ret |-> "None"]

release_lock_keep(lk, name, caller_id) == [locks |-> lk, ret |-> "None"]

release_lock_refuse(lk, name, caller_id) == [locks |-> lk, ret |-> "KeyError"]

release_lock_nodelete(lk, name, caller_id) ==
    IF name \notin Keys(lk)
    THEN [locks |-> lk, ret |-> "KeyError"]
    ELSE IF Get(lk, name).owner # caller_id
    THEN [locks |-> lk, ret |-> "AssertionError"]
    ELSE [locks |-> [lk EXCEPT ![IndexOf(lk, name)].count = @ - 1], ret |-> "None"]

release_lock(lk, name, caller_id) ==
    IF name \notin Keys(lk)
    THEN [locks |-> lk, ret |-> "KeyError"]
    ELSE IF Get(lk, name).owner # caller_id
    THEN [locks |-> lk, ret |-> "AssertionError"]
    ELSE LET i == IndexOf(lk, name)
             lk1 == [lk EXCEPT ![i].count = @ - 1]
         IN [locks |-> IF lk1[i].count = 0 THEN Del(lk1, name) ELSE lk1,
             ret |-> "None"]

(***************************************************************************)
(* _PabotLib.release_locks(caller_id), lines 85-90.  The loop deletes from *)
(* the dict it iterates.  In Python 2 keys() is a list, a snapshot, and    *)
(* every entry of the caller is handled.  In Python 3 keys() is a view:    *)
(* the first deletion makes the iterator's next step raise RuntimeError    *)
(* ("dictionary changed size during iteration"), also when the deleted     *)
(* entry was the last one, and the entries after it are not reached.       *)
(***************************************************************************)
RECURSIVE release_locks_view(_, _, _)
release_locks_view(lk, i, caller_id) ==
    IF i > Len(lk)
    THEN [locks |-> lk, ret |-> "None"]
    ELSE IF lk[i].owner = caller_id
    THEN IF lk[i].count - 1 = 0
         THEN [locks |-> Del(lk, lk[i].name), ret |-> "RuntimeError"]
         ELSE release_locks_view([lk EXCEPT ![i].count = @ - 1], i + 1, caller_id)
    ELSE release_locks_view(lk, i + 1, caller_id)

release_locks_list(lk, caller_id) ==
    LET dec == [i \in 1..Len(lk) |->
                   IF lk[i].owner = caller_id
                   THEN [lk[i] EXCEPT !.count = @ - 1]
                   ELSE lk[i]]
    IN [locks |-> SelectSeq(dec, LAMBDA e : e.count # 0), ret |-> "None"]

release_locks(py3, lk, caller_id) ==
    IF py3 THEN release_locks_view(lk, 1, caller_id)
           ELSE release_locks_list(lk, caller_id)

(***************************************************************************)
(* Bookkeeping of outstanding acquisitions: the names whose count a call   *)
(* lowered (or whose entry it removed).                                    *)
(***************************************************************************)
CountOf(lk, name) == IF name \in Keys(lk) THEN Get(lk, name).count ELSE 0

Lowered(before, after) == {n \in Keys(before) : CountOf(after, n) < CountOf(before, n)}

(***************************************************************************)
(* The lock table under arbitrary calls of its three operations.           *)
(***************************************************************************)
Init ==
    /\ python3 \in BOOLEAN
    /\ locks = <<>>
    /\ values = <<>>
    /\ owner_to_values = <<>>
    /\ parallel_values = <<>>
    /\ last = NoCall
    /\ held = [n \in LockNames |-> [c \in Callers |-> 0]]
    /\ InitWorkers
    /\ env = NoEnv

AcquireLock(name, caller_id) ==
    LET r == acquire_lock(locks, name, caller_id)
    IN /\ CountOf(r.locks, name) <= MaxCount
       /\ locks' = r.locks
       /\ last' = Call("acquire_lock", caller_id, name, {}, r.ret, None)
       /\ held' = IF r.ret = "True"
                  THEN [held EXCEPT ![name][caller_id] = @ + 1]
                  ELSE held
       /\ UNCHANGED <<python3, libs, facade, lock_name, values, owner_to_values, parallel_values, wvars>>

ReleaseLock(name, caller_id) ==
    LET r == release_lock(locks, name, caller_id)
    IN /\ locks' = r.locks
       /\ last' = Call("release_lock", caller_id, name, {}, r.ret, None)
       /\ held' = IF r.ret = "None"
                  THEN [held EXCEPT ![name][caller_id] = @ - 1]
                  ELSE held
       /\ UNCHANGED <<python3, libs, facade, lock_name, values, owner_to_values, parallel_values, wvars>>

ReleaseLocks(caller_id) ==
    LET r == release_locks(python3, locks, caller_id)
    IN /\ locks' = r.locks
       /\ last' = Call("release_locks", caller_id, "", {}, r.ret, None)
       /\ held' = [n \in LockNames |-> [c \in Callers |->
                      IF c = caller_id /\ n \in Lowered(locks, r.locks)
                      THEN held[n][c] - 1
                      ELSE held[n][c]]]
       /\ UNCHANGED <<python3, libs, facade, lock_name, values, owner_to_values, parallel_values, wvars>>

Next ==
    \/ \E n \in LockNames, c \in Callers : AcquireLock(n, c)
    \/ \E n \in LockNames, c \in Callers : ReleaseLock(n, c)
    \/ \E c \in Callers : ReleaseLocks(c)

Spec == Init /\ [][Next]_vars

(***************************************************************************)
(* The pool of value sets.  _parse_values (lines 49-63) gives every        *)
(* section an entry whose "tags" is a list; the other options are the      *)
(* entry's data.  The i-th entry of the dict is called SetNames[i].        *)
(* `values` is a plain dict: it iterates in configuration order (Python    *)
(* 3.7 and later) or in an arbitrary fixed order (before); Configs holds   *)
(* every arrangement of contents, so both are covered up to the names.     *)
(***************************************************************************)
MaxSets == 2

SetNames == <<"A", "B", "C", "D">>

\* The contents a section may have: its tag list and its other options.
Contents ==
    {[tags |-> <<>>, data |-> "d1"], [tags |-> <<>>, data |-> "d2"],
     [tags |-> <<"x">>, data |-> "d1"], [tags |-> <<"x", "y">>, data |-> "d1"]}

RequestTags == SUBSET {"x", "y"}

Configs ==
    UNION {{[i \in 1..k |-> [name |-> SetNames[i], tags |-> c[i].tags, data |-> c[i].data]] :
               c \in [1..k -> Contents]} : k \in 0..MaxSets}

\* Dict equality compares the contents of two value sets, not their identity:
\* the section name is not part of the dict.
Content(e) == [tags |-> e.tags, data |-> e.data]

Elems(list) == {list[i] : i \in 1..Len(list)}

\* all(tag in self._values[key]["tags"] for tag in tags), line 101
Matches(e, tags) == \A tag \in tags : tag \in Elems(e.tags)

\* self._values[key] not in self._owner_to_values.values(), line 103
Reserved_never(e, otv) == FALSE

Reserved(e, otv) ==
    \E c \in DOMAIN otv : otv[c] # None /\ Content(otv[c]) = Content(e)

SetItem(otv, caller_id, v) ==
    [c \in DOMAIN otv \cup {caller_id} |-> IF c = caller_id THEN v ELSE otv[c]]

HasSet(otv, caller_id) == caller_id \in DOMAIN otv /\ otv[caller_id] # None

(***************************************************************************)
(* _PabotLib.acquire_value_set(caller_id, *tags), lines 92-110.            *)
(***************************************************************************)
RECURSIVE scan_value_sets(_, _, _, _, _)
scan_value_sets(vals, otv, caller_id, tags, i) ==
    IF i > Len(vals)
    THEN IF \A j \in 1..Len(vals) : ~Matches(vals[j], tags)
         THEN [owner_to_values |-> otv, ret |-> "ValueError: no match", setname |-> "None"]
         ELSE [owner_to_values |-> otv, ret |-> "None", setname |-> "None"]
    ELSE IF Matches(vals[i], tags) /\ ~Reserved(vals[i], otv)
    THEN [owner_to_values |-> SetItem(otv, caller_id, vals[i]),
          ret |-> "set", setname |-> vals[i].name]
    ELSE scan_value_sets(vals, otv, caller_id, tags, i + 1)

acquire_value_set_busy_is_nomatch(vals, otv, caller_id, tags) ==
    IF vals = <<>>
    THEN [owner_to_values |-> otv, ret |-> "AssertionError", setname |-> "None"]
    ELSE IF HasSet(otv, caller_id)
    THEN [owner_to_values |-> otv, ret |-> "ValueError: reserved", setname |-> "None"]
    ELSE LET r == scan_value_sets(vals, otv, caller_id, tags, 1)
         IN IF r.ret = "None" THEN [r EXCEPT !.ret = "ValueError: no match"] ELSE r

acquire_value_set(vals, otv, caller_id, tags) ==
    IF vals = <<>>
    THEN [owner_to_values |-> otv, ret |-> "AssertionError", setname |-> "None"]
    ELSE IF HasSet(otv, caller_id)
    THEN [owner_to_values |-> otv, ret |-> "ValueError: reserved", setname |-> "None"]
    ELSE scan_value_sets(vals, otv, caller_id, tags, 1)

(***************************************************************************)
(* _PabotLib.release_value_set(caller_id), lines 112-113.                  *)
(***************************************************************************)
release_value_set_noop(otv, caller_id) == otv

release_value_set(otv, caller_id) == SetItem(otv, caller_id, None)

(***************************************************************************)
(* _PabotLib.disable_value_set(setname, caller_id), lines 115-117.  The    *)
(* reservation is cleared first; del raises KeyError for an unknown name.  *)
(***************************************************************************)
disable_value_set_keep(vals, otv, setname, caller_id) ==
    [values |-> vals,
     owner_to_values |-> SetItem(otv, caller_id, None),
     ret |-> IF setname \in Keys(vals) THEN "None" ELSE "KeyError"]

disable_value_set(vals, otv, setname, caller_id) ==
    [values |-> Del(vals, setname),
     owner_to_values |-> SetItem(otv, caller_id, None),
     ret |-> IF setname \in Keys(vals) THEN "None" ELSE "KeyError"]

HeldSet(otv, caller_id) == IF HasSet(otv, caller_id) THEN otv[caller_id] ELSE None

InitValues ==
    /\ python3 = TRUE   \* read by release_locks and the recipes only
    /\ values \in Configs
    /\ locks = <<>>
    /\ owner_to_values = <<>>
    /\ parallel_values = <<>>
    /\ last = NoCall
    /\ held = [n \in LockNames |-> [c \in Callers |-> 0]]
    /\ InitWorkers
    /\ env = NoEnv

AcquireValueSet(caller_id, tags) ==
    LET r == acquire_value_set(values, owner_to_values, caller_id, tags)
    IN /\ owner_to_values' = r.owner_to_values
       /\ last' = Call("acquire_value_set", caller_id, r.setname, tags, r.ret,
                       HeldSet(owner_to_values, caller_id))
       /\ UNCHANGED <<python3, libs, facade, lock_name, locks, values, parallel_values, held, wvars>>

ReleaseValueSet(caller_id) ==
    /\ owner_to_values' = release_value_set(owner_to_values, caller_id)
    /\ last' = Call("release_value_set", caller_id, "", {}, "None",
                    HeldSet(owner_to_values, caller_id))
    /\ UNCHANGED <<python3, libs, facade, lock_name, locks, values, parallel_values, held, wvars>>

DisableValueSet(setname, caller_id) ==
    LET r == disable_value_set(values, owner_to_values, setname, caller_id)
    IN /\ values' = r.values
       /\ owner_to_values' = r.owner_to_values
       /\ last' = Call("disable_value_set", caller_id, setname, {}, r.ret,
                       HeldSet(owner_to_values, caller_id))
       /\ UNCHANGED <<python3, libs, facade, lock_name, locks, parallel_values, held, wvars>>

NextValues ==
    \/ \E c \in Callers, t \in RequestTags : AcquireValueSet(c, t)
    \/ \E c \in Callers : ReleaseValueSet(c)
    \/ \E i \in 1..MaxSets, c \in Callers : DisableValueSet(SetNames[i], c)

SpecValues == InitValues /\ [][NextValues]_vars

(***************************************************************************)
(* The key/value store, lines 65-69.                                       *)
(***************************************************************************)
set_parallel_value_for_key(pv, key, value) ==
    IF key \in Keys(pv)
    THEN [pv EXCEPT ![IndexOf(pv, key)].value = value]
    ELSE Append(pv, [name |-> key, value |-> value])

get_parallel_value_for_key(pv, key) ==
    IF key \in Keys(pv) THEN Get(pv, key).value ELSE PyStr("")

(***************************************************************************)
(* PabotLib.run_only_once(keyword), lines 233-253, on a worker whose       *)
(* facade talks to the coordinator (PabotLib.acquire_lock, lines 318-334,  *)
(* polls the coordinator's acquire_lock).  Every remote call is one step;  *)
(* the coordinator serves one call at a time.  The transport is reliable.  *)
(***************************************************************************)
MaxCalls == 1

run_only_once_lock_name(keyword) == "pabot_run_only_once_" \o keyword

\* Lines 242-247: where the recipe goes after reading the marker.
after_marker_always_run(passed) == "run"

after_marker(passed) ==
    IF passed # PyStr("")
    THEN IF passed = PyStr("FAILED") THEN "raise" ELSE "return"
    ELSE "run"

OnceStart(w, keyword) ==
    /\ pc[w] = "idle" /\ calls[w] < MaxCalls
    /\ pc' = [pc EXCEPT ![w] = "once_acquire"]
    /\ wkw' = [wkw EXCEPT ![w] = keyword]
    /\ lock_name' = [lock_name EXCEPT ![w] = run_only_once_lock_name(keyword)]
    /\ exc' = [exc EXCEPT ![w] = "None"]
    /\ UNCHANGED <<python3, libs, facade, coord, last, held, result, calls, executed,
                   kwout, env, observed>>

\* Line 240: one round of the polling loop of PabotLib.acquire_lock.
OnceAcquire(w) ==
    /\ pc[w] = "once_acquire"
    /\ LET r == acquire_lock(locks, run_only_once_lock_name(wkw[w]), w)
       IN /\ locks' = r.locks
          /\ pc' = [pc EXCEPT ![w] = IF r.ret = "True" THEN "once_get" ELSE "once_acquire"]
    /\ UNCHANGED <<python3, libs, facade, lock_name, values, owner_to_values, parallel_values, last, held,
                   wkw, exc, result, calls, executed, kwout, env, observed>>

\* Lines 241-246.
OnceGet(w) ==
    /\ pc[w] = "once_get"
    /\ LET passed == get_parallel_value_for_key(parallel_values,
                                                run_only_once_lock_name(wkw[w]))
           to == after_marker(passed)
       IN /\ pc' = [pc EXCEPT ![w] = CASE to = "raise" -> "once_except"
                                       [] to = "return" -> "once_finally"
                                       [] OTHER -> "once_run"]
          /\ exc' = [exc EXCEPT ![w] = IF to = "raise"
                                       THEN "AssertionError: failed in other process"
                                       ELSE "None"]
    /\ UNCHANGED <<python3, libs, facade, lock_name, coord, last, held, wkw, result, calls, executed, kwout,
                   env, observed>>

\* Line 247: the keyword runs and passes or fails.
OnceRun(w, passes) ==
    /\ pc[w] = "once_run"
    /\ executed' = [executed EXCEPT ![wkw[w]] = @ + 1]
    /\ kwout' = [kwout EXCEPT ![wkw[w]] = IF passes THEN "PASS" ELSE "FAIL"]
    /\ pc' = [pc EXCEPT ![w] = IF passes THEN "once_set_passed" ELSE "once_except"]
    /\ exc' = [exc EXCEPT ![w] = IF passes THEN "None" ELSE "KeywordFailure"]
    /\ UNCHANGED <<python3, libs, facade, lock_name, coord, last, held, wkw, result, calls, env, observed>>

\* Line 248.
OnceSetPassed(w) ==
    /\ pc[w] = "once_set_passed"
    /\ parallel_values' = set_parallel_value_for_key(
           parallel_values, run_only_once_lock_name(wkw[w]), PyStr("PASSED"))
    /\ pc' = [pc EXCEPT ![w] = "once_finally"]
    /\ UNCHANGED <<python3, libs, facade, lock_name, locks, values, owner_to_values, last, held,
                   wkw, exc, result, calls, executed, kwout, env, observed>>

\* Lines 249-251: the bare except records FAILED and re-raises.
OnceExcept(w) ==
    /\ pc[w] = "once_except"
    /\ parallel_values' = set_parallel_value_for_key(
           parallel_values, run_only_once_lock_name(wkw[w]), PyStr("FAILED"))
    /\ pc' = [pc EXCEPT ![w] = "once_finally"]
    /\ UNCHANGED <<python3, libs, facade, lock_name, locks, values, owner_to_values, last, held,
                   wkw, exc, result, calls, executed, kwout, env, observed>>

\* Lines 252-253: release_lock in the finally clause; an exception it raises
\* replaces the one in flight.  Then the call returns or raises.
OnceFinally(w) ==
    /\ pc[w] = "once_finally"
    /\ LET r == release_lock(locks, run_only_once_lock_name(wkw[w]), w)
           e == IF r.ret = "None" THEN exc[w] ELSE r.ret
       IN /\ locks' = r.locks
          /\ result' = [result EXCEPT ![w] =
                           [recipe |-> "run_only_once", kw |-> wkw[w],
                            out |-> IF e = "None" THEN "returned" ELSE e]]
    /\ exc' = [exc EXCEPT ![w] = "None"]
    /\ pc' = [pc EXCEPT ![w] = "idle"]
    /\ calls' = [calls EXCEPT ![w] = @ + 1]
    /\ UNCHANGED <<python3, libs, facade, lock_name, values, owner_to_values, parallel_values, last, held,
                   wkw, executed, kwout, env, observed>>

NextOnce ==
    \/ \E w \in Workers, k \in Keywords : OnceStart(w, k)
    \/ \E w \in Workers : OnceAcquire(w)
    \/ \E w \in Workers : OnceGet(w)
    \/ \E w \in Workers, passes \in BOOLEAN : OnceRun(w, passes)
    \/ \E w \in Workers : OnceSetPassed(w)
    \/ \E w \in Workers : OnceExcept(w)
    \/ \E w \in Workers : OnceFinally(w)

SpecOnce == Init /\ [][NextOnce]_vars

(***************************************************************************)
(* Python expressions the recipes use.                                     *)
(***************************************************************************)
MaxIndex == 2

Digits == <<"0", "1", "2", "3", "4">>

\* x or d
py_or(x, d) ==
    IF x = PyNone \/ x = PyStr("") \/ x = PyInt(0) THEN d ELSE x

\* int(x) for an int or a string of one digit
py_int(x) ==
    IF x.type = "int" THEN x.i
    ELSE (CHOOSE k \in 1..Len(Digits) : Digits[k] = x.s) - 1

\* a < b.  Python 3 refuses to order a str and an int; Python 2 orders every
\* number before every string.
py_less(py3, a, b) ==
    CASE a.type = "int" /\ b.type = "int" -> IF a.i < b.i THEN "True" ELSE "False"
      [] a.type = "str" /\ b.type = "int" -> IF py3 THEN "TypeError" ELSE "False"
      [] a.type = "int" /\ b.type = "str" -> IF py3 THEN "TypeError" ELSE "True"
      [] OTHER -> "TypeError"

\* s.startswith(prefix)
StartsWith_swapped(str, prefix) ==
    Len(str) <= Len(prefix) /\ SubSeq(prefix, 1, Len(str)) = str

StartsWith(str, prefix) ==
    Len(prefix) <= Len(str) /\ SubSeq(str, 1, Len(prefix)) = prefix

\* PabotLib._path, lines 188-192
Path(position) == IF Len(position) < 1 THEN "" ELSE position[Len(position)]

\* Lines 268 and 286
QueueIndex(e) == py_int(py_or(e.queue_index, PyInt(0)))

\* Line 282
IsLast_always(e) == TRUE

IsLast(e) == py_int(py_or(e.is_last, PyInt(1))) = 1

PABOT_MIN_QUEUE_INDEX_EXECUTING_PARALLEL_VALUE == "pabot_min_queue_index_executing"

PABOT_ONLY_LAST_EXECUTING == "pabot_only_last_executing"

(***************************************************************************)
(* One worker process running run_teardown_only_once (lines 255-275) and   *)
(* run_on_last_process (lines 277-290), while the driver writes the two    *)
(* keys they poll through set_parallel_value_for_key.                      *)
(***************************************************************************)
Envs ==
    [uri : BOOLEAN,
     last_level : {PyNone, PyStr("S"), PyStr("S.T"), PyStr("U")},
     position : {<<>>, <<"S">>, <<"S", "S.T">>},
     queue_index : {PyNone} \cup {PyStr(Digits[k + 1]) : k \in 0..MaxIndex},
     is_last : {PyNone, PyStr("0"), PyStr("1")}]

InitRecipes ==
    /\ python3 \in BOOLEAN
    /\ locks = <<>>
    /\ values = <<>>
    /\ owner_to_values = <<>>
    /\ parallel_values = <<>>
    /\ last = NoCall
    /\ held = [n \in LockNames |-> [c \in Callers |-> 0]]
    /\ InitWorkers
    /\ env \in Envs

Finish(w, recipe, keyword, out) ==
    /\ result' = [result EXCEPT ![w] = [recipe |-> recipe, kw |-> keyword, out |-> out]]
    /\ pc' = [pc EXCEPT ![w] = "idle"]
    /\ calls' = [calls EXCEPT ![w] = @ + 1]

\* The driver (or any process) writes a key of the store, lines 65-66.
SetParallelValue(key, value) ==
    /\ parallel_values' = set_parallel_value_for_key(parallel_values, key, value)
    /\ UNCHANGED <<python3, libs, facade, lock_name, locks, values, owner_to_values, last, held, wvars>>

\* Lines 260-270 and 274: up to the polling loop.
TeardownStart(w, keyword) ==
    /\ pc[w] = "idle" /\ calls[w] < MaxCalls
    /\ wkw' = [wkw EXCEPT ![w] = keyword]
    /\ observed' = [observed EXCEPT ![w] = PyNone]
    /\ IF env.last_level = PyNone
       THEN /\ pc' = [pc EXCEPT ![w] = "td_run"]
            /\ UNCHANGED <<result, calls>>
       ELSE IF ~StartsWith(Path(env.position), env.last_level.s)
       THEN Finish(w, "run_teardown_only_once", keyword, "returned")
       ELSE /\ pc' = [pc EXCEPT ![w] = IF env.uri THEN "td_poll" ELSE "td_run"]
            /\ UNCHANGED <<result, calls>>
    /\ UNCHANGED <<python3, libs, facade, lock_name, coord, last, held, exc, executed, kwout, env>>

\* Lines 271-273: one round of the loop.
TeardownPoll(w) ==
    /\ pc[w] = "td_poll"
    /\ LET v == get_parallel_value_for_key(parallel_values,
                                           PABOT_MIN_QUEUE_INDEX_EXECUTING_PARALLEL_VALUE)
           c == py_less(python3, v, PyInt(QueueIndex(env)))
       IN /\ observed' = [observed EXCEPT ![w] = v]
          /\ CASE c = "True" -> UNCHANGED <<pc, result, calls>>
               [] c = "False" -> pc' = [pc EXCEPT ![w] = "td_run"] /\ UNCHANGED <<result, calls>>
               [] OTHER -> Finish(w, "run_teardown_only_once", wkw[w], c)
    /\ UNCHANGED <<python3, libs, facade, lock_name, coord, last, held, wkw, exc, executed, kwout, env>>

\* Lines 262 and 275.
TeardownRun(w, passes) ==
    /\ pc[w] = "td_run"
    /\ executed' = [executed EXCEPT ![wkw[w]] = @ + 1]
    /\ kwout' = [kwout EXCEPT ![wkw[w]] = IF passes THEN "PASS" ELSE "FAIL"]
    /\ Finish(w, "run_teardown_only_once", wkw[w],
              IF passes THEN "returned" ELSE "KeywordFailure")
    /\ UNCHANGED <<python3, libs, facade, lock_name, coord, last, held, wkw, exc, env, observed>>

\* Lines 282-287.
LastStart(w, keyword) ==
    /\ pc[w] = "idle" /\ calls[w] < MaxCalls
    /\ wkw' = [wkw EXCEPT ![w] = keyword]
    /\ observed' = [observed EXCEPT ![w] = PyNone]
    /\ IF ~IsLast(env)
       THEN Finish(w, "run_on_last_process", keyword, "returned")
       ELSE /\ pc' = [pc EXCEPT ![w] = IF QueueIndex(env) > 0 /\ env.uri
                                       THEN "last_poll" ELSE "last_run"]
            /\ UNCHANGED <<result, calls>>
    /\ UNCHANGED <<python3, libs, facade, lock_name, coord, last, held, exc, executed, kwout, env>>

\* Lines 288-289: one round of the loop.
LastPoll(w) ==
    /\ pc[w] = "last_poll"
    /\ LET v == get_parallel_value_for_key(parallel_values, PABOT_ONLY_LAST_EXECUTING)
       IN /\ observed' = [observed EXCEPT ![w] = v]
          /\ pc' = [pc EXCEPT ![w] = IF v # PyInt(1) THEN "last_poll" ELSE "last_run"]
    /\ UNCHANGED <<python3, libs, facade, lock_name, coord, last, held, wkw, exc, result, calls, executed, kwout, env>>

\* Line 290.
LastRun(w, passes) ==
    /\ pc[w] = "last_run"
    /\ executed' = [executed EXCEPT ![wkw[w]] = @ + 1]
    /\ kwout' = [kwout EXCEPT ![wkw[w]] = IF passes THEN "PASS" ELSE "FAIL"]
    /\ Finish(w, "run_on_last_process", wkw[w],
              IF passes THEN "returned" ELSE "KeywordFailure")
    /\ UNCHANGED <<python3, libs, facade, lock_name, coord, last, held, wkw, exc, env, observed>>

NextRecipes ==
    \/ \E i \in 0..MaxIndex :
          SetParallelValue(PABOT_MIN_QUEUE_INDEX_EXECUTING_PARALLEL_VALUE, PyInt(i))
    \/ \E i \in 0..1 : SetParallelValue(PABOT_ONLY_LAST_EXECUTING, PyInt(i))
    \/ TeardownStart("w1", "k1")
    \/ TeardownPoll("w1")
    \/ \E passes \in BOOLEAN : TeardownRun("w1", passes)
    \/ LastStart("w1", "k1")
    \/ LastPoll("w1")
    \/ \E passes \in BOOLEAN : LastRun("w1", passes)

SpecRecipes == InitRecipes /\ [][NextRecipes]_vars

(***************************************************************************)
(* C1: once a caller a holds lock n (its successful acquires of n are not  *)
(* all released), acquire_lock(n, b) by any other caller b returns False   *)
(* and leaves the lock table as it was; once nobody else holds n, b's      *)
(* acquire returns True.  Two acquires by a need two releases.             *)
(***************************************************************************)
C1_MutualExclusion ==
    [][ last'.op = "acquire_lock" =>
          LET n == last'.name
              b == last'.caller
          IN IF \E a \in Callers \ {b} : held[n][a] > 0
             THEN last'.ret = "False" /\ locks' = locks
             ELSE last'.ret = "True" /\ n \in Keys(locks') /\ Get(locks', n).owner = b
      ]_vars

\* b has just been refused a lock that a acquired twice.
C1_Witness ==
    /\ last.op = "acquire_lock" /\ last.ret = "False"
    /\ \E a \in Callers \ {last.caller} :
          /\ held[last.name][a] = 2
          /\ Get(locks, last.name) = [name |-> last.name, owner |-> a, count |-> 2]

(***************************************************************************)
(* C9: release_lock(name, caller) raises when there is no entry for name   *)
(* or the entry's owner is not caller, and then the lock table is          *)
(* unchanged; otherwise it lowers the count by one and removes the entry   *)
(* when the count reaches zero, leaving the other entries alone.           *)
(***************************************************************************)
C9_ReleaseLock ==
    [][ last'.op = "release_lock" =>
          LET n == last'.name
              c == last'.caller
          IN IF n \notin Keys(locks) \/ Get(locks, n).owner # c
             THEN last'.ret \in {"KeyError", "AssertionError"} /\ locks' = locks
             ELSE /\ last'.ret = "None"
                  /\ IF Get(locks, n).count = 1
                     THEN n \notin Keys(locks')
                     ELSE /\ n \in Keys(locks')
                          /\ Get(locks', n).count = Get(locks, n).count - 1
                          /\ Get(locks', n).owner = c
                  /\ Keys(locks') \ {n} = Keys(locks) \ {n}
                  /\ \A m \in Keys(locks) \ {n} : Get(locks', m) = Get(locks, m)
      ]_vars

\* A release by a caller that is not the owner failed and the entry kept its count.
C9_Witness ==
    /\ last.op = "release_lock" /\ last.ret = "AssertionError"
    /\ last.name \in Keys(locks)
    /\ Get(locks, last.name).owner # last.caller
    /\ Get(locks, last.name).count = 2

(***************************************************************************)
(* C2: no value set is reserved by two callers at the same time, and a     *)
(* reservation is only given to a caller that holds none.                  *)
(***************************************************************************)
C2_ExclusiveReservation ==
    /\ \A c1, c2 \in DOMAIN owner_to_values :
          (c1 # c2 /\ HasSet(owner_to_values, c1) /\ HasSet(owner_to_values, c2))
             => owner_to_values[c1].name # owner_to_values[c2].name
    /\ (last.op = "acquire_value_set" /\ last.ret = "set") => last.had = None

\* Two callers hold two different sets and a third has just been told to wait.
C2_Witness ==
    /\ last.op = "acquire_value_set" /\ last.ret = "None"
    /\ \E c1, c2 \in DOMAIN owner_to_values \ {last.caller} :
          /\ c1 # c2
          /\ HasSet(owner_to_values, c1) /\ HasSet(owner_to_values, c2)

(***************************************************************************)
(* C4 as stated: right after a caller released the set it held, an         *)
(* acquire_value_set by another caller that holds no set, with tags the    *)
(* released set has, returns a set; in particular it does not return the   *)
(* (None, None) pair.                                                      *)
(***************************************************************************)
C4_Original ==
    [][ ( /\ last.op = "release_value_set" /\ last.had # None
          /\ last'.op = "acquire_value_set" /\ last'.caller # last.caller
          /\ last'.had = None
          /\ Matches(last.had, last'.tags) )
        => last'.ret # "None"
      ]_vars

(***************************************************************************)
(* C4 amended: the same, provided the released set is still in the pool    *)
(* (no disable_value_set removed it while it was held).  With a pool of    *)
(* one set S, a caller holding no set is told to wait on every attempt     *)
(* while another caller holds S, and gets S on its first attempt after the *)
(* release.                                                                *)
(***************************************************************************)
C4_ReleasedIsEligible ==
    [][ /\ ( /\ last.op = "release_value_set" /\ last.had # None
             /\ last.had.name \in Keys(values)
             /\ last'.op = "acquire_value_set" /\ last'.caller # last.caller
             /\ last'.had = None
             /\ Matches(last.had, last'.tags) )
           => /\ last'.ret = "set"
              /\ Len(values) = 1 => last'.name = last.had.name
        /\ ( /\ last'.op = "acquire_value_set" /\ last'.had = None
             /\ Len(values) = 1 /\ Matches(values[1], last'.tags)
             /\ \E c \in DOMAIN owner_to_values \ {last'.caller} :
                   owner_to_values[c] = values[1] )
           => last'.ret = "None"
      ]_vars

\* A caller has just obtained the set that another caller released in the call before.
C4_Witness ==
    /\ last.op = "acquire_value_set" /\ last.ret = "set"
    /\ last.freed # None /\ last.name = last.freed.name
    /\ Len(values) = 1

(***************************************************************************)
(* C5: for a caller holding no set, on a non-empty pool: acquire_value_set *)
(* raises "no matching set" exactly when no set has all the requested      *)
(* tags, and returns (None, None) exactly when some set has them and every *)
(* such set is reserved by another caller; no reservation changes then.    *)
(***************************************************************************)
ReservedByOther(e, otv, caller_id) ==
    \E c \in DOMAIN otv \ {caller_id} : otv[c] # None /\ otv[c].name = e.name

C5_NoMatchVersusTryLater ==
    [][ ( /\ last'.op = "acquire_value_set"
          /\ values # <<>>
          /\ ~HasSet(owner_to_values, last'.caller) )
        => LET T == last'.tags
               M == {i \in 1..Len(values) : Matches(values[i], T)}
           IN /\ last'.ret = "ValueError: no match" <=> M = {}
              /\ last'.ret = "None" <=>
                    (M # {} /\ \A i \in M :
                        ReservedByOther(values[i], owner_to_values, last'.caller))
              /\ last'.ret \in {"ValueError: no match", "None"}
                    => owner_to_values' = owner_to_values
      ]_vars

(***************************************************************************)
(* C10: a successful disable_value_set(name, caller) leaves the caller     *)
(* without a reservation and removes name from the pool for good: a name   *)
(* that is not in the pool never comes back, and acquire_value_set only    *)
(* returns names that are in the pool.  disable_value_set of a name that   *)
(* is not in the pool raises.                                              *)
(***************************************************************************)
C10_DisableIsPermanent ==
    [][ /\ last'.op = "disable_value_set" =>
              IF last'.name \in Keys(values)
              THEN /\ last'.ret = "None"
                   /\ ~HasSet(owner_to_values', last'.caller)
                   /\ last'.name \notin Keys(values')
              ELSE last'.ret = "KeyError"
        /\ \A i \in 1..Len(SetNames) :
              SetNames[i] \notin Keys(values) => SetNames[i] \notin Keys(values')
        /\ (last'.op = "acquire_value_set" /\ last'.ret = "set")
              => last'.name \in Keys(values) /\ last'.name \in Keys(values')
      ]_vars

\* A caller disabled the set it held; the pool still offers another set.
C10_Witness ==
    /\ last.op = "disable_value_set" /\ last.ret = "None"
    /\ last.had # None /\ last.had.name = last.name
    /\ ~HasSet(owner_to_values, last.caller)
    /\ last.name \notin Keys(values)
    /\ values # <<>>

(***************************************************************************)
(* C3: over any number of concurrent run_only_once calls for a keyword the *)
(* keyword is executed exactly once, and every call that has finished      *)
(* returned if that execution passed and raised if it failed.              *)
(***************************************************************************)
C3_RunOnlyOnce ==
    /\ \A k \in Keywords : executed[k] <= 1
    /\ \A w \in Workers :
          result[w] # NoResult =>
             /\ executed[result[w].kw] = 1
             /\ result[w].out = "returned" <=> kwout[result[w].kw] = "PASS"
             /\ result[w].out \in {"returned", "KeywordFailure",
                                   "AssertionError: failed in other process"}

\* All workers ran the recipe for the same keyword; its one execution failed.
C3_Witness ==
    /\ \A w \in Workers : result[w].kw = "k1" /\ result[w].out # "returned"
    /\ executed["k1"] = 1
    /\ \E w \in Workers : result[w].out = "KeywordFailure"
    /\ \E w \in Workers : result[w].out = "AssertionError: failed in other process"

(***************************************************************************)
(* C6: a run_teardown_only_once that polls (last level supplied, position  *)
(* eligible, coordinator configured) leaves its loop for the keyword only  *)
(* when the value stored under pabot_min_queue_index_executing is an       *)
(* integer >= the caller's queue index; while that value is lower or has   *)
(* never been set, the caller stays in the loop: it neither runs the       *)
(* keyword nor fails.                                                      *)
(***************************************************************************)
C6_TeardownWaitsForWatermark ==
    [][ \A w \in Workers :
          pc[w] = "td_poll" =>
             LET wm == get_parallel_value_for_key(
                          parallel_values, PABOT_MIN_QUEUE_INDEX_EXECUTING_PARALLEL_VALUE)
                 reached == wm.type = "int" /\ wm.i >= QueueIndex(env)
             IN /\ pc'[w] = "td_run" => reached
                /\ ~reached => pc'[w] = "td_poll"
      ]_vars

(***************************************************************************)
(* C7: run_teardown_only_once with a last level that is not a prefix of    *)
(* the caller's position returns at once: the keyword is not run, nothing  *)
(* is raised and the coordinator's locks, store and reservations are       *)
(* untouched; with a last level that is a prefix it goes on; with no last  *)
(* level it runs the keyword without waiting.                              *)
(***************************************************************************)
IsPrefix(p, str) == \E k \in 0..Len(str) : SubSeq(str, 1, k) = p

C7_TeardownSkipsOffPath ==
    [][ \A w \in Workers :
          LET skipped == /\ calls'[w] = calls[w] + 1
                         /\ result'[w].recipe = "run_teardown_only_once"
              goes_on == pc'[w] \in {"td_poll", "td_run"}
          IN /\ (pc[w] = "idle" /\ (skipped \/ goes_on)) =>
                   /\ skipped <=> ( /\ env.last_level # PyNone
                                    /\ ~IsPrefix(env.last_level.s, Path(env.position)) )
                   /\ skipped => /\ result'[w].out = "returned"
                                 /\ executed' = executed
                                 /\ coord' = coord
                   /\ env.last_level = PyNone => pc'[w] = "td_run"
             /\ (pc[w] = "td_run" /\ pc'[w] # "td_run") =>
                   executed'[wkw[w]] = executed[wkw[w]] + 1
      ]_vars

\* The call was skipped below a last level that is set, after the driver wrote the store.
C7_Witness ==
    /\ result["w1"] = [recipe |-> "run_teardown_only_once", kw |-> "k1", out |-> "returned"]
    /\ executed["k1"] = 0
    /\ env.last_level = PyStr("S.T") /\ env.position = <<"S">>
    /\ parallel_values # <<>>

(***************************************************************************)
(* C8 as stated: run_on_last_process goes on to the keyword only when the  *)
(* driver's is-last flag is true ("1") and returns without running it when *)
(* the flag is false ("0"); with the flag true, a queue index above 0 and  *)
(* a coordinator, it polls, and leaves the loop only on reading 1 under    *)
(* pabot_only_last_executing.                                              *)
(***************************************************************************)
LastSkipped(w) ==
    calls'[w] = calls[w] + 1 /\ result'[w].recipe = "run_on_last_process"

LastGoesOn(w) == pc'[w] \in {"last_poll", "last_run"}

LastGated(w, flags) ==
    /\ (pc[w] = "idle" /\ (LastSkipped(w) \/ LastGoesOn(w))) =>
          /\ LastGoesOn(w) => env.is_last \in flags
          /\ env.is_last = PyStr("0") =>
                /\ LastSkipped(w)
                /\ result'[w].out = "returned"
                /\ executed' = executed
          /\ ( /\ env.is_last \in flags
               /\ env.queue_index \notin {PyNone, PyStr("0")}
               /\ env.uri ) => pc'[w] = "last_poll"
    /\ (pc[w] = "last_poll" /\ pc'[w] = "last_run") =>
          /\ get_parallel_value_for_key(parallel_values, PABOT_ONLY_LAST_EXECUTING) = PyInt(1)
          /\ observed'[w] = PyInt(1)
    /\ executed' # executed => pc[w] \in {"last_run", "td_run"}

C8_Original == [][ LastGated("w1", {PyStr("1")}) ]_vars

(***************************************************************************)
(* C8 amended: the same, where the keyword is also reached when the flag   *)
(* is not supplied at all: `int(flag or 1) == 1` takes a missing flag for  *)
(* true.                                                                   *)
(***************************************************************************)
C8_LastProcessGate == [][ LastGated("w1", {PyStr("1"), PyNone}) ]_vars

\* The last worker, with queue index 2, ran the keyword after it had read 1.
C8_Witness ==
    /\ result["w1"] = [recipe |-> "run_on_last_process", kw |-> "k1", out |-> "returned"]
    /\ executed["k1"] = 1
    /\ observed["w1"] = PyInt(1)
    /\ env.is_last = PyStr("1") /\ env.queue_index = PyStr("2") /\ env.uri

(***************************************************************************)
(* _PabotLib.import_shared_library(name), lines 126-136.  TestLibrary(name)*)
(* raises for a name that cannot be imported, before anything is stored.   *)
(* RobotRemoteServer(..., port=0) is bound to a port the OS picks among    *)
(* those no live endpoint uses.  The coordinator's RPC server handles one  *)
(* call at a time, so the handler runs from line 127 to its return without *)
(* another call in between, time.sleep(1) included.                        *)
(***************************************************************************)
Ports == {"p1", "p2", "p3", "p4"}

Importable == LibNames \ {"missing"}

import_shared_library_again(rl, name, port) ==
    IF name \notin Importable
    THEN [remote_libraries |-> rl, ret |-> "DataError", imported |-> FALSE]
    ELSE [remote_libraries |->
              IF name \in Keys(rl)
              THEN [rl EXCEPT ![IndexOf(rl, name)].port = port]
              ELSE Append(rl, [name |-> name, port |-> port]),
          ret |-> port, imported |-> TRUE]

import_shared_library(rl, name, port) ==
    IF name \in Keys(rl)
    THEN [remote_libraries |-> rl, ret |-> Get(rl, name).port, imported |-> FALSE]
    ELSE IF name \notin Importable
    THEN [remote_libraries |-> rl, ret |-> "DataError", imported |-> FALSE]
    ELSE [remote_libraries |-> Append(rl, [name |-> name, port |-> port]),
          ret |-> port, imported |-> TRUE]

\* The ports of the endpoints that are being served.
Bound(srv) == {e.port : e \in srv}

ImportSharedLibrary(name, port) ==
    /\ port \notin Bound(servers)
    /\ LET r == import_shared_library(remote_libraries, name, port)
       IN /\ remote_libraries' = r.remote_libraries
          /\ instantiated' = IF r.imported
                             THEN [instantiated EXCEPT ![name] = @ + 1]
                             ELSE instantiated
          /\ servers' = IF r.imported
                        THEN servers \cup {[port |-> port, name |-> name]}
                        ELSE servers
          /\ last' = Call("import_shared_library", "", name, {}, r.ret, None)
    /\ UNCHANGED <<python3, coord, held, wvars, lock_name, facade>>

\* _PabotLib.stop_remote_libraries, lines 138-142: every endpoint is stopped and
\* joined; the entries of _remote_libraries stay.
StopRemoteLibraries ==
    /\ servers' = {}
    /\ last' = Call("stop_remote_libraries", "", "", {}, "None", None)
    /\ UNCHANGED <<python3, coord, held, wvars, lock_name, remote_libraries,
                   instantiated, facade>>

NextLibs ==
    \/ \E n \in LibNames, p \in Ports : ImportSharedLibrary(n, p)
    \/ StopRemoteLibraries

SpecLibs == Init /\ [][NextLibs]_vars

(***************************************************************************)
(* C11: import_shared_library is idempotent per name.  Over any sequence   *)
(* of calls a name is instantiated, and given an endpoint, at most once;   *)
(* the port stored for a name never changes; a call for a name that was    *)
(* imported returns the stored port and instantiates and starts nothing;   *)
(* the first successful call for a name instantiates it once, starts one   *)
(* endpoint and stores the port it returns; a failing call changes nothing.*)
(***************************************************************************)
C11_ImportIsIdempotent ==
    [][ /\ \A n \in LibNames : instantiated'[n] <= 1
        /\ \A n \in Keys(remote_libraries) :
              /\ n \in Keys(remote_libraries')
              /\ Get(remote_libraries', n).port = Get(remote_libraries, n).port
        /\ last'.op = "import_shared_library" =>
              LET n == last'.name
              IN IF n \in Keys(remote_libraries)
                 THEN /\ last'.ret = Get(remote_libraries, n).port
                      /\ UNCHANGED libs
                 ELSE IF last'.ret \in Ports
                 THEN /\ instantiated'[n] = 1 /\ instantiated[n] = 0
                      /\ Get(remote_libraries', n).port = last'.ret
                      /\ servers' = servers \cup {[port |-> last'.ret, name |-> n]}
                      /\ last'.ret \notin Bound(servers)
                 ELSE UNCHANGED libs
      ]_vars

\* A repeated call: the name is not the newest entry, and it got its first port back.
C11_Witness ==
    /\ last.op = "import_shared_library"
    /\ Len(remote_libraries) = 3
    /\ last.name = remote_libraries[1].name
    /\ last.ret = remote_libraries[1].port
    /\ \A n \in Importable : instantiated[n] = 1

(***************************************************************************)
(* The worker facade's dispatch, lines 202-208 and 292-428.  A facade call *)
(* first evaluates the property _remotelib: a cached Remote is reused,     *)
(* otherwise one is built when ${PABOTLIBURI} is set (building it does not *)
(* connect).  With a Remote the call is sent to the coordinator; a         *)
(* transport that is down makes Remote.run_keyword raise RuntimeError,     *)
(* while a failure of the keyword on the coordinator comes back as another *)
(* exception and is the coordinator's result.  Without a Remote the        *)
(* operation is applied to the facade itself, a _PabotLib built without a  *)
(* resource file (line 151): its _values is empty.                         *)
(***************************************************************************)
MaxFacadeCalls == 2

StoredValues == {PyStr("a"), PyStr("b")}

RunWithLibKeywords ==
    {"set_parallel_value_for_key", "get_parallel_value_for_key", "release_lock"}

\* PabotLib._remotelib, lines 202-208
resolve(cached, uri) == [remotelib |-> cached \/ uri, built |-> ~cached /\ uri]

\* The keyword applied to an instance of the primitives: getattr(_PabotLib, keyword)
\* (self, *args), line 308, or the coordinator serving run_keyword, line 303.
run_keyword(keyword, lk, pv, caller_id, name, value) ==
    CASE keyword = "set_parallel_value_for_key" ->
            [locks |-> lk, parallel_values |-> set_parallel_value_for_key(pv, name, value),
             ret |-> "None"]
      [] keyword = "get_parallel_value_for_key" ->
            [locks |-> lk, parallel_values |-> pv,
             ret |-> get_parallel_value_for_key(pv, name).s]
      [] keyword = "release_lock" ->
            [locks |-> release_lock(lk, name, caller_id).locks, parallel_values |-> pv,
             ret |-> release_lock(lk, name, caller_id).ret]

\* The except clause of lines 304-307, 330-333, 371-374 and 420-423.
ConnectionLost_keep(w) == remotelib' = [remotelib EXCEPT ![w] = TRUE]

ConnectionLost(w) == remotelib' = [remotelib EXCEPT ![w] = FALSE]

Resolved(w, c) ==
    resolutions' = [resolutions EXCEPT ![w] = IF c.built THEN @ + 1 ELSE @]

HeldAfter(name, caller_id, d) ==
    IF name \in DOMAIN held THEN [held EXCEPT ![name][caller_id] = @ + d] ELSE held

\* PabotLib._run_with_lib, lines 300-308, called by set_parallel_value_for_key,
\* get_parallel_value_for_key and release_lock (lines 298, 316, 341).
RunWithLib(w, keyword, name, value) ==
    /\ pc[w] = "idle" /\ calls[w] < MaxFacadeCalls
    /\ LET c == resolve(remotelib[w], env.uri)
       IN /\ Resolved(w, c)
          /\ IF c.remotelib
             THEN IF up
                  THEN LET r == run_keyword(keyword, locks, parallel_values, w, name, value)
                       IN /\ locks' = r.locks
                          /\ parallel_values' = r.parallel_values
                          /\ remotelib' = [remotelib EXCEPT ![w] = TRUE]
                          /\ last' = Call(keyword, w, name, {}, r.ret, None)
                          /\ held' = IF keyword = "release_lock" /\ r.ret = "None"
                                     THEN HeldAfter(name, w, -1) ELSE held
                          /\ Finish(w, keyword, name, r.ret)
                          /\ UNCHANGED <<local_locks, local_parallel_values>>
                  ELSE /\ ConnectionLost(w)
                       /\ Finish(w, keyword, name, "RuntimeError")
                       /\ UNCHANGED <<locks, parallel_values, last, held,
                                      local_locks, local_parallel_values>>
             ELSE LET r == run_keyword(keyword, local_locks, local_parallel_values,
                                       w, name, value)
                  IN /\ local_locks' = r.locks
                     /\ local_parallel_values' = r.parallel_values
                     /\ Finish(w, keyword, name, r.ret)
                     /\ UNCHANGED <<locks, parallel_values, last, held, remotelib>>
    /\ UNCHANGED <<python3, values, owner_to_values, wkw, exc, executed, kwout, env,
                   observed, lock_name, libs, up, facade_setname>>

\* One call of the coordinator's acquire_lock in the loop of lines 325-328.
AcquireLockRound(w, name) ==
    IF up
    THEN LET r == acquire_lock(locks, name, w)
         IN /\ locks' = r.locks
            /\ remotelib' = [remotelib EXCEPT ![w] = TRUE]
            /\ last' = Call("acquire_lock", w, name, {}, r.ret, None)
            /\ IF r.ret = "True"
               THEN /\ held' = HeldAfter(name, w, 1)
                    /\ Finish(w, "acquire_lock", name, "True")
               ELSE /\ pc' = [pc EXCEPT ![w] = "acquire_lock"]
                    /\ UNCHANGED <<held, result, calls>>
    ELSE /\ ConnectionLost(w)
         /\ Finish(w, "acquire_lock", name, "RuntimeError")
         /\ UNCHANGED <<locks, last, held>>

\* PabotLib.acquire_lock(name), lines 318-334, up to the end of the first round.
FacadeAcquireLock(w, name) ==
    /\ pc[w] = "idle" /\ calls[w] < MaxFacadeCalls
    /\ lock_name' = [lock_name EXCEPT ![w] = name]
    /\ LET c == resolve(remotelib[w], env.uri)
       IN /\ Resolved(w, c)
          /\ IF c.remotelib
             THEN /\ AcquireLockRound(w, name)
                  /\ UNCHANGED local_locks
             ELSE LET r == acquire_lock(local_locks, name, w)
                  IN /\ local_locks' = r.locks
                     /\ Finish(w, "acquire_lock", name, r.ret)
                     /\ UNCHANGED <<locks, last, held, remotelib>>
    /\ UNCHANGED <<python3, values, owner_to_values, parallel_values, wkw, exc, executed,
                   kwout, env, observed, libs, up, local_parallel_values, facade_setname>>

\* A later round of the loop, after time.sleep(0.1).
FacadeAcquireLockPoll(w) ==
    /\ pc[w] = "acquire_lock"
    /\ AcquireLockRound(w, lock_name[w])
    /\ UNCHANGED <<python3, values, owner_to_values, parallel_values, wkw, exc, executed,
                   kwout, env, observed, lock_name, libs, resolutions, up, local_locks,
                   local_parallel_values, facade_setname>>

\* One call of the coordinator's acquire_value_set in the loop of lines 363-370.
\* The facade is called without tags.
AcquireValueSetRound(w) ==
    IF up
    THEN LET r == acquire_value_set(values, owner_to_values, w, {})
         IN /\ owner_to_values' = r.owner_to_values
            /\ remotelib' = [remotelib EXCEPT ![w] = TRUE]
            /\ last' = Call("acquire_value_set", w, r.setname, {}, r.ret,
                            HeldSet(owner_to_values, w))
            /\ CASE r.ret = "set" ->
                       /\ facade_setname' = [facade_setname EXCEPT ![w] = r.setname]
                       /\ Finish(w, "_acquire_value_set", "", r.setname)
                 [] r.ret = "None" ->
                       /\ facade_setname' = [facade_setname EXCEPT ![w] = "None"]
                       /\ pc' = [pc EXCEPT ![w] = "_acquire_value_set"]
                       /\ UNCHANGED <<result, calls>>
                 [] OTHER ->
                       /\ Finish(w, "_acquire_value_set", "", r.ret)
                       /\ UNCHANGED facade_setname
    ELSE /\ ConnectionLost(w)
         /\ Finish(w, "_acquire_value_set", "", "RuntimeError")
         /\ UNCHANGED <<owner_to_values, last, facade_setname>>

\* PabotLib._acquire_value_set(), lines 360-376, up to the end of the first round.
\* The facade's own _values is empty, so line 375 raises at line 94.
FacadeAcquireValueSet(w) ==
    /\ pc[w] = "idle" /\ calls[w] < MaxFacadeCalls
    /\ LET c == resolve(remotelib[w], env.uri)
       IN /\ Resolved(w, c)
          /\ IF c.remotelib
             THEN AcquireValueSetRound(w)
             ELSE /\ Finish(w, "_acquire_value_set", "",
                            acquire_value_set(<<>>, <<>>, w, {}).ret)
                  /\ UNCHANGED <<owner_to_values, last, remotelib, facade_setname>>
    /\ UNCHANGED <<python3, locks, values, parallel_values, held, wkw, exc, executed,
                   kwout, env, observed, lock_name, libs, up, local_locks,
                   local_parallel_values>>

FacadeAcquireValueSetPoll(w) ==
    /\ pc[w] = "_acquire_value_set"
    /\ AcquireValueSetRound(w)
    /\ UNCHANGED <<python3, locks, values, parallel_values, held, wkw, exc, executed,
                   kwout, env, observed, lock_name, libs, resolutions, up, local_locks,
                   local_parallel_values>>

\* PabotLib.import_shared_library(name), lines 408-428.  Without
\* ${PABOTQUEUEINDEX} the library is imported into the calling process (line 415)
\* before _remotelib is looked at; without a Remote line 428 raises.
FacadeImportSharedLibrary(w, name, port) ==
    /\ pc[w] = "idle" /\ calls[w] < MaxFacadeCalls
    /\ port \notin Bound(servers)
    /\ IF env.queue_index = PyNone
       THEN /\ Finish(w, "import_shared_library", name, "import_library")
            /\ UNCHANGED <<libs, last, remotelib, resolutions>>
       ELSE LET c == resolve(remotelib[w], env.uri)
            IN /\ Resolved(w, c)
               /\ IF c.remotelib
                  THEN IF up
                       THEN LET r == import_shared_library(remote_libraries, name, port)
                            IN /\ remote_libraries' = r.remote_libraries
                               /\ instantiated' =
                                     IF r.imported
                                     THEN [instantiated EXCEPT ![name] = @ + 1]
                                     ELSE instantiated
                               /\ servers' =
                                     IF r.imported
                                     THEN servers \cup {[port |-> port, name |-> name]}
                                     ELSE servers
                               /\ remotelib' = [remotelib EXCEPT ![w] = TRUE]
                               /\ last' = Call("import_shared_library", "", name, {},
                                               r.ret, None)
                               /\ Finish(w, "import_shared_library", name, r.ret)
                       ELSE /\ ConnectionLost(w)
                            /\ Finish(w, "import_shared_library", name, "RuntimeError")
                            /\ UNCHANGED <<libs, last>>
                  ELSE /\ Finish(w, "import_shared_library", name,
                                 "AssertionError: No connection to pabotlib")
                       /\ UNCHANGED <<libs, last, remotelib>>
    /\ UNCHANGED <<python3, coord, held, wkw, exc, executed, kwout, env, observed,
                   lock_name, up, local_locks, local_parallel_values, facade_setname>>

\* The transport to the coordinator goes down or comes back.
TransportChanges ==
    /\ up' = ~up
    /\ UNCHANGED <<python3, coord, last, held, wvars, lock_name, libs, remotelib,
                   resolutions, local_locks, local_parallel_values, facade_setname>>

\* The process is started with or without a coordinator address and queue index;
\* the coordinator has no value set or one.
InitFacade ==
    /\ python3 = TRUE
    /\ values \in {c \in Configs : Len(c) <= 1}
    /\ locks = <<>>
    /\ owner_to_values = <<>>
    /\ parallel_values = <<>>
    /\ last = NoCall
    /\ held = [n \in LockNames |-> [c \in Callers |-> 0]]
    /\ InitWorkers
    /\ env \in {e \in Envs : /\ e.last_level = PyNone /\ e.position = <<>>
                             /\ e.is_last = PyNone
                             /\ e.queue_index \in {PyNone, PyStr("1")}}

\* Worker w1 uses its facade; worker w2's calls reach the coordinator too.
NextFacade ==
    \/ \E k \in RunWithLibKeywords, n \in {"L1"}, v \in StoredValues :
          RunWithLib("w1", k, n, v)
    \/ FacadeAcquireLock("w1", "L1")
    \/ FacadeAcquireLockPoll("w1")
    \/ FacadeAcquireValueSet("w1")
    \/ FacadeAcquireValueSetPoll("w1")
    \/ \E p \in Ports : FacadeImportSharedLibrary("w1", "lib1", p)
    \/ TransportChanges
    \/ AcquireLock("L1", "w2")
    \/ ReleaseLock("L1", "w2")
    \/ AcquireValueSet("w2", {})
    \/ ReleaseValueSet("w2")

SpecFacade == InitFacade /\ [][NextFacade]_vars

(***************************************************************************)
(* What a facade call that has just finished may have returned or raised   *)
(* when its operation is applied to the given instance of the primitives.  *)
(***************************************************************************)
Results(op, w, name, lk, pv, vals, otv, rl, srv) ==
    CASE op \in RunWithLibKeywords ->
            {run_keyword(op, lk, pv, w, name, PyStr("a")).ret}
      [] op = "acquire_lock" ->
            {acquire_lock(lk, name, w).ret}
      [] op = "_acquire_value_set" ->
            LET r == acquire_value_set(vals, otv, w, {})
            IN {IF r.ret = "set" THEN r.setname ELSE r.ret}
      [] op = "import_shared_library" ->
            {import_shared_library(rl, name, p).ret : p \in Ports \ Bound(srv)}

LocksAfter(op, w, name, lk) ==
    CASE op = "acquire_lock" -> acquire_lock(lk, name, w).locks
      [] op = "release_lock" -> release_lock(lk, name, w).locks
      [] OTHER -> lk

StoreAfter(op, name, pv) ==
    IF op = "set_parallel_value_for_key"
    THEN {set_parallel_value_for_key(pv, name, v) : v \in StoredValues}
    ELSE {pv}

\* `uniform`: import_shared_library is dispatched like the other operations.
Dispatch(w, uniform) ==
    /\ (result[w].out = "RuntimeError" /\ pc[w] = "idle") => ~remotelib[w]
    /\ pc'[w] # "idle" => remotelib'[w]
    /\ calls'[w] = calls[w] + 1 =>
          LET op == result'[w].recipe
              name == result'[w].kw
              out == result'[w].out
              special == ~uniform /\ op = "import_shared_library"
          IN IF special /\ env.queue_index = PyNone
             THEN out = "import_library" /\ UNCHANGED <<coord, libs, last, facade>>
             ELSE IF remotelib[w] \/ env.uri
             THEN /\ resolutions'[w] = resolutions[w] + (IF remotelib[w] THEN 0 ELSE 1)
                  /\ UNCHANGED <<local_locks, local_parallel_values>>
                  /\ IF up
                     THEN /\ out \in Results(op, w, name, locks, parallel_values, values,
                                             owner_to_values, remote_libraries, servers)
                          /\ locks' = LocksAfter(op, w, name, locks)
                          /\ parallel_values' \in StoreAfter(op, name, parallel_values)
                          /\ remotelib'[w]
                     ELSE /\ out = "RuntimeError"
                          /\ ~remotelib'[w]
                          /\ UNCHANGED <<coord, libs, last>>
             ELSE /\ UNCHANGED <<coord, libs, last, remotelib, resolutions>>
                  /\ IF special
                     THEN /\ out = "AssertionError: No connection to pabotlib"
                          /\ UNCHANGED <<local_locks, local_parallel_values>>
                     ELSE /\ out \in Results(op, w, name, local_locks,
                                             local_parallel_values, <<>>, <<>>, <<>>, {})
                          /\ local_locks' = LocksAfter(op, w, name, local_locks)
                          /\ local_parallel_values' \in
                                StoreAfter(op, name, local_parallel_values)

(***************************************************************************)
(* C12 as stated: every operation dispatched through _run_with_lib,        *)
(* acquire_lock, _acquire_value_set or import_shared_library, with a       *)
(* coordinator connection cached (or an address to resolve one from),      *)
(* returns the coordinator's result or, the transport being unreachable,   *)
(* raises the connectivity error and clears the cached connection, so that *)
(* the next call resolves the address again; with no address configured    *)
(* the same operation is applied to the in-process primitives.             *)
(***************************************************************************)
C12_Original == [][ Dispatch("w1", TRUE) ]_vars

(***************************************************************************)
(* C12 amended: the same for _run_with_lib, acquire_lock and               *)
(* _acquire_value_set.  import_shared_library differs: when                *)
(* ${PABOTQUEUEINDEX} is not set it imports the library into the calling   *)
(* process without contacting the coordinator, cached connection or not;   *)
(* otherwise it is sent to the coordinator like the others when an address *)
(* is configured, and with no address it raises "No connection to          *)
(* pabotlib" instead of being applied in process.                          *)
(***************************************************************************)
C12_FacadeDispatch == [][ Dispatch("w1", FALSE) ]_vars

\* The first call lost the connection, the second resolved the address again and
\* came back with the coordinator's answer.
C12_Witness ==
    /\ calls["w1"] = 2 /\ resolutions["w1"] = 2
    /\ remotelib["w1"] /\ up
    /\ result["w1"] = [recipe |-> "acquire_lock", kw |-> "L1", out |-> "True"]
    /\ "L1" \in Keys(locks) /\ Get(locks, "L1").owner = "w1"
    /\ local_locks = <<>>

(***************************************************************************)
(* C13: acquire_value_set(caller, tags) on a non-empty pool, by a caller   *)
(* holding no set, when some set of the pool has all the requested tags    *)
(* and is reserved by no caller, reserves the first such set in the pool's *)
(* order for the caller and returns its name; it does not return           *)
(* (None, None) then.                                                      *)
(***************************************************************************)
ReservedByAny(e, otv) ==
    \E c \in DOMAIN otv : otv[c] # None /\ otv[c].name = e.name

C13_FirstFreeMatchingSet ==
    [][ ( /\ last'.op = "acquire_value_set"
          /\ values # <<>>
          /\ ~HasSet(owner_to_values, last'.caller) )
        => LET free == {i \in 1..Len(values) :
                           /\ Matches(values[i], last'.tags)
                           /\ ~ReservedByAny(values[i], owner_to_values)}
           IN free # {} =>
                 LET first == CHOOSE i \in free : \A j \in free : i <= j
                 IN /\ last'.ret = "set"
                    /\ last'.name = values[first].name
                    /\ owner_to_values'[last'.caller] = values[first]
      ]_vars

(***************************************************************************)
(* C14: release_locks(caller) completes without error; every entry owned   *)
(* by caller has its count lowered by exactly one and is removed when the  *)
(* count reaches zero; every entry of another owner is left as it was.     *)
(***************************************************************************)
C14_ReleaseLocks ==
    [][ last'.op = "release_locks" =>
          /\ last'.ret = "None"
          /\ Keys(locks') \subseteq Keys(locks)
          /\ \A n \in Keys(locks) :
                LET e == Get(locks, n)
                IN IF e.owner = last'.caller
                   THEN IF e.count = 1
                        THEN n \notin Keys(locks')
                        ELSE /\ n \in Keys(locks')
                             /\ Get(locks', n) = [e EXCEPT !.count = @ - 1]
                   ELSE n \in Keys(locks') /\ Get(locks', n) = e
      ]_vars

(***************************************************************************)
(* C15: in every reachable state of the lock table, whatever acquire_lock, *)
(* release_lock and release_locks calls were made and whether they         *)
(* returned or raised, every entry has a count of at least 1 and one       *)
(* owner, no name has two entries, and so no entry has a count of zero.    *)
(***************************************************************************)
C15_LockEntriesArePositive ==
    /\ \A i \in 1..Len(locks) :
          /\ locks[i].count >= 1
          /\ locks[i].owner \in Callers
          /\ \A j \in 1..Len(locks) : locks[j].name = locks[i].name => j = i
    /\ \A n \in LockNames : CountOf(locks, n) = 0 <=> n \notin Keys(locks)

\* release_locks has just raised half way: it lowered one entry of the caller to
\* count 1 and removed another.
C15_Witness ==
    /\ last.op = "release_locks" /\ last.ret = "RuntimeError"
    /\ Len(locks) = 1
    /\ locks[1].owner = last.caller /\ locks[1].count = 1
    /\ held[locks[1].name][last.caller] = 1

(***************************************************************************)
(* PabotLib.run_setup_only_once(keyword, *args), lines 210-231: the same   *)
(* steps as run_only_once, with a lock name and marker key made from the   *)
(* caller's position, _path.  Workers are at a position of their own.      *)
(***************************************************************************)
Positions == {<<"S">>, <<"S", "S.T">>}

run_setup_only_once_lock_name(path) == "pabot_setup_" \o path

\* Lines 220-225: where the recipe goes after reading the marker.
setup_after_marker_rerun(passed) ==
    IF passed = PyStr("PASSED") THEN "return" ELSE "run"

setup_after_marker(passed) ==
    IF passed # PyStr("")
    THEN IF passed = PyStr("FAILED") THEN "raise" ELSE "return"
    ELSE "run"

\* Line 216.
SetupStart(w, keyword, position) ==
    /\ pc[w] = "idle" /\ calls[w] < MaxCalls
    /\ pc' = [pc EXCEPT ![w] = "setup_acquire"]
    /\ wkw' = [wkw EXCEPT ![w] = keyword]
    /\ lock_name' = [lock_name EXCEPT ![w] = run_setup_only_once_lock_name(Path(position))]
    /\ exc' = [exc EXCEPT ![w] = "None"]
    /\ UNCHANGED <<python3, libs, facade, coord, last, held, result, calls, executed,
                   kwout, env, observed>>

\* Line 218: one round of the polling loop of PabotLib.acquire_lock.
SetupAcquire(w) ==
    /\ pc[w] = "setup_acquire"
    /\ LET r == acquire_lock(locks, lock_name[w], w)
       IN /\ locks' = r.locks
          /\ pc' = [pc EXCEPT ![w] = IF r.ret = "True" THEN "setup_get" ELSE "setup_acquire"]
    /\ UNCHANGED <<python3, libs, facade, lock_name, values, owner_to_values,
                   parallel_values, last, held, wkw, exc, result, calls, executed, kwout,
                   env, observed>>

\* Lines 219-224.
SetupGet(w) ==
    /\ pc[w] = "setup_get"
    /\ LET passed == get_parallel_value_for_key(parallel_values, lock_name[w])
           to == setup_after_marker(passed)
       IN /\ pc' = [pc EXCEPT ![w] = CASE to = "raise" -> "setup_except"
                                       [] to = "return" -> "setup_finally"
                                       [] OTHER -> "setup_run"]
          /\ exc' = [exc EXCEPT ![w] = IF to = "raise"
                                       THEN "AssertionError: Setup failed in other process"
                                       ELSE "None"]
    /\ UNCHANGED <<python3, libs, facade, lock_name, coord, last, held, wkw, result,
                   calls, executed, kwout, env, observed>>

\* Line 225: the keyword runs and passes or fails.
SetupRun(w, passes) ==
    /\ pc[w] = "setup_run"
    /\ executed' = [executed EXCEPT ![wkw[w]] = @ + 1]
    /\ kwout' = [kwout EXCEPT ![wkw[w]] = IF passes THEN "PASS" ELSE "FAIL"]
    /\ pc' = [pc EXCEPT ![w] = IF passes THEN "setup_set_passed" ELSE "setup_except"]
    /\ exc' = [exc EXCEPT ![w] = IF passes THEN "None" ELSE "KeywordFailure"]
    /\ UNCHANGED <<python3, libs, facade, lock_name, coord, last, held, wkw, result,
                   calls, env, observed>>

\* Line 226.
SetupSetPassed(w) ==
    /\ pc[w] = "setup_set_passed"
    /\ parallel_values' = set_parallel_value_for_key(
           parallel_values, lock_name[w], PyStr("PASSED"))
    /\ pc' = [pc EXCEPT ![w] = "setup_finally"]
    /\ UNCHANGED <<python3, libs, facade, lock_name, locks, values, owner_to_values,
                   last, held, wkw, exc, result, calls, executed, kwout, env, observed>>

\* Lines 227-229: the bare except records FAILED and re-raises.
SetupExcept(w) ==
    /\ pc[w] = "setup_except"
    /\ parallel_values' = set_parallel_value_for_key(
           parallel_values, lock_name[w], PyStr("FAILED"))
    /\ pc' = [pc EXCEPT ![w] = "setup_finally"]
    /\ UNCHANGED <<python3, libs, facade, lock_name, locks, values, owner_to_values,
                   last, held, wkw, exc, result, calls, executed, kwout, env, observed>>

\* Lines 230-231: release_lock in the finally clause; an exception it raises
\* replaces the one in flight.  Then the call returns or raises.
SetupFinally(w) ==
    /\ pc[w] = "setup_finally"
    /\ LET r == release_lock(locks, lock_name[w], w)
           e == IF r.ret = "None" THEN exc[w] ELSE r.ret
       IN /\ locks' = r.locks
          /\ result' = [result EXCEPT ![w] =
                           [recipe |-> "run_setup_only_once", kw |-> wkw[w],
                            out |-> IF e = "None" THEN "returned" ELSE e]]
    /\ exc' = [exc EXCEPT ![w] = "None"]
    /\ pc' = [pc EXCEPT ![w] = "idle"]
    /\ calls' = [calls EXCEPT ![w] = @ + 1]
    /\ UNCHANGED <<python3, libs, facade, lock_name, values, owner_to_values,
                   parallel_values, last, held, wkw, executed, kwout, env, observed>>

\* The invocations made so far, finished or in progress.
MaxInvocations == 3

Invocations ==
    Cardinality({x \in Workers \X (1..MaxInvocations) : x[2] <= calls[x[1]]})
        + Cardinality({w \in Workers : pc[w] # "idle"})

\* Workers call run_setup_only_once at their positions, or run_only_once.
NextSetup ==
    \/ \E w \in Workers, p \in Positions :
          Invocations < MaxInvocations /\ SetupStart(w, "k1", p)
    \/ \E w \in Workers : SetupAcquire(w)
    \/ \E w \in Workers : SetupGet(w)
    \/ \E w \in Workers, passes \in BOOLEAN : SetupRun(w, passes)
    \/ \E w \in Workers : SetupSetPassed(w)
    \/ \E w \in Workers : SetupExcept(w)
    \/ \E w \in Workers : SetupFinally(w)
    \/ \E w \in Workers : Invocations < MaxInvocations /\ OnceStart(w, "k1")
    \/ \E w \in Workers : OnceAcquire(w)
    \/ \E w \in Workers : OnceGet(w)
    \/ \E w \in Workers, passes \in BOOLEAN : OnceRun(w, passes)
    \/ \E w \in Workers : OnceSetPassed(w)
    \/ \E w \in Workers : OnceExcept(w)
    \/ \E w \in Workers : OnceFinally(w)

SpecSetup == Init /\ [][NextSetup]_vars

(***************************************************************************)
(* C16: every invocation of run_setup_only_once or run_only_once releases  *)
(* its recipe lock exactly once on each path (keyword passed, keyword      *)
(* failed, skipped after PASSED, failed after FAILED).  A worker that is   *)
(* not in a recipe owns no recipe lock; in the recipe it owns its lock     *)
(* with count 1 from the acquire on; only the finally clause lowers the    *)
(* count, by one, and that release does not raise; so when the invocation  *)
(* returns or raises the count is what it was before the invocation.       *)
(***************************************************************************)
RecipeLockNames ==
    {run_only_once_lock_name(k) : k \in Keywords}
        \cup {run_setup_only_once_lock_name(Path(p)) : p \in Positions}

OwnCount(lk, w, n) ==
    IF n \in Keys(lk) /\ Get(lk, n).owner = w THEN Get(lk, n).count ELSE 0

RecipeOutcomes ==
    {"returned", "KeywordFailure", "AssertionError: failed in other process",
     "AssertionError: Setup failed in other process"}

C16_RecipeLockReleasedOnce ==
    [][ \A w \in Workers :
          /\ pc[w] \in {"idle", "once_acquire", "setup_acquire"} =>
                \A n \in RecipeLockNames : OwnCount(locks, w, n) = 0
          /\ pc[w] \notin {"idle", "once_acquire", "setup_acquire"} =>
                \A n \in RecipeLockNames :
                    OwnCount(locks, w, n) = IF n = lock_name[w] THEN 1 ELSE 0
          /\ \A n \in RecipeLockNames :
                OwnCount(locks', w, n) < OwnCount(locks, w, n) =>
                    /\ pc[w] \in {"once_finally", "setup_finally"} /\ pc'[w] = "idle"
                    /\ OwnCount(locks', w, n) = OwnCount(locks, w, n) - 1
          /\ (pc[w] # "idle" /\ pc'[w] = "idle") =>
                /\ pc[w] \in {"once_finally", "setup_finally"}
                /\ \A n \in RecipeLockNames : OwnCount(locks', w, n) = 0
                /\ result'[w].out \in RecipeOutcomes
      ]_vars

\* Three invocations are over: one ran the setup keyword, which failed, one found
\* FAILED recorded, one ran the keyword of run_only_once; no lock is left.
C16_Witness ==
    /\ locks = <<>>
    /\ \A w \in Workers : pc[w] = "idle"
    /\ \E w \in Workers :
          result[w] = [recipe |-> "run_setup_only_once", kw |-> "k1", out |-> "KeywordFailure"]
    /\ \E w \in Workers :
          result[w].out = "AssertionError: Setup failed in other process"
    /\ \E w \in Workers :
          result[w] = [recipe |-> "run_only_once", kw |-> "k1", out |-> "returned"]

(***************************************************************************)
(* C17: in run_setup_only_once, the worker whose execution of the keyword  *)
(* fails stores 'FAILED' under the recipe's key and has the keyword's own  *)
(* failure raised to it; a worker that reads 'FAILED' does not run the     *)
(* keyword and raises 'Setup failed in other process'; a marker that is    *)
(* 'PASSED' or 'FAILED' keeps its value; different positions have          *)
(* different lock names, and a step of a recipe touches no lock entry and  *)
(* no marker but those of its own lock name.                               *)
(***************************************************************************)
Marker(pv, n) == get_parallel_value_for_key(pv, n)

C17_SetupFailurePropagates ==
    [][ /\ \A w \in Workers :
              /\ (pc[w] = "setup_run" /\ pc'[w] = "setup_except") =>
                    exc'[w] = "KeywordFailure"
              /\ (pc[w] = "setup_except" /\ pc'[w] # "setup_except") =>
                    /\ pc'[w] = "setup_finally"
                    /\ Marker(parallel_values', lock_name[w]) = PyStr("FAILED")
                    /\ exc'[w] = exc[w]
              /\ (pc[w] = "setup_finally" /\ pc'[w] # "setup_finally") =>
                    result'[w].out = IF exc[w] = "None" THEN "returned" ELSE exc[w]
              /\ (pc[w] = "setup_get" /\ pc'[w] # "setup_get"
                     /\ Marker(parallel_values, lock_name[w]) = PyStr("FAILED")) =>
                    /\ pc'[w] = "setup_except"
                    /\ exc'[w] = "AssertionError: Setup failed in other process"
                    /\ executed' = executed
              /\ pc[w] = "setup_run" => Marker(parallel_values, lock_name[w]) = PyStr("")
              /\ pc'[w] # pc[w] =>
                    \A n \in RecipeLockNames \ {lock_name'[w]} :
                        /\ Marker(parallel_values', n) = Marker(parallel_values, n)
                        /\ (n \in Keys(locks) <=> n \in Keys(locks'))
                        /\ n \in Keys(locks) => Get(locks', n) = Get(locks, n)
        /\ \A n \in RecipeLockNames :
              Marker(parallel_values, n) # PyStr("") =>
                  Marker(parallel_values', n) = Marker(parallel_values, n)
        /\ \A p, q \in Positions :
              p # q => run_setup_only_once_lock_name(Path(p))
                          # run_setup_only_once_lock_name(Path(q))
      ]_vars

\* At position S the keyword failed for one worker and another found FAILED; at
\* position S.T a third worker ran the keyword, which passed there.
C17_Witness ==
    /\ \A w \in Workers : pc[w] = "idle" /\ result[w].recipe = "run_setup_only_once"
    /\ Marker(parallel_values, "pabot_setup_S") = PyStr("FAILED")
    /\ Marker(parallel_values, "pabot_setup_S.T") = PyStr("PASSED")
    /\ executed["k1"] = 2
    /\ \E w \in Workers : result[w].out = "KeywordFailure"
    /\ \E w \in Workers : result[w].out = "AssertionError: Setup failed in other process"
    /\ \E w \in Workers : result[w].out = "returned" /\ lock_name[w] = "pabot_setup_S.T"

(***************************************************************************)
(* C18: the "no matching set" failure is permanent.  Once an               *)
(* acquire_value_set with tags T has raised it, every later                *)
(* acquire_value_set with the same tags T, by any caller and after any     *)
(* acquire, release and disable calls, raises too: it neither reserves a   *)
(* set nor returns (None, None).                                           *)
(***************************************************************************)
AcquireFailures == {"ValueError: no match", "AssertionError", "ValueError: reserved"}

\* The pool used by two callers.
NextValuesTwo ==
    \/ \E c \in {"w1", "w2"}, t \in RequestTags : AcquireValueSet(c, t)
    \/ \E c \in {"w1", "w2"} : ReleaseValueSet(c)
    \/ \E i \in 1..MaxSets, c \in {"w1", "w2"} : DisableValueSet(SetNames[i], c)

SpecValuesTwo == InitValues /\ [][NextValuesTwo]_vars

C18_NoMatchIsPermanent ==
    \A T \in RequestTags :
        []( ( /\ last.op = "acquire_value_set" /\ last.tags = T
              /\ last.ret = "ValueError: no match" )
            => []( (last.op = "acquire_value_set" /\ last.tags = T)
                      => last.ret \in AcquireFailures ) )

\* The request for tag y has just failed again for want of a match, right after
\* another caller released the set it held; the pool still has sets.
C18_Witness ==
    /\ last.op = "acquire_value_set" /\ last.tags = {"y"}
    /\ last.ret = "ValueError: no match"
    /\ last.freed # None /\ Matches(last.freed, {"x"})
    /\ values # <<>>

(***************************************************************************)
(* C19: a failing disable_value_set leaves the coordinator's state as it   *)
(* was: when disable_value_set(name, caller) raises because name is not in *)
(* the pool, the pool and every caller's reservation, the caller's own     *)
(* included, are what they were before the call.                           *)
(***************************************************************************)
C19_FailedDisableChangesNothing ==
    [][ (last'.op = "disable_value_set" /\ last'.ret = "KeyError") =>
          /\ values' = values
          /\ \A c \in Callers :
                HeldSet(owner_to_values', c) = HeldSet(owner_to_values, c)
      ]_vars

(***************************************************************************)
(* run_only_once under fair scheduling: a worker that is inside the recipe *)
(* keeps running (its process is not stopped), so each of its steps that   *)
(* stays possible is taken: the next round of the polling loop, the next   *)
(* statement, and the keyword's execution, which terminates.  Whether and  *)
(* when a worker invokes the recipe is left open.                          *)
(***************************************************************************)
OnceStep(w) ==
    \/ OnceAcquire(w)
    \/ OnceGet(w)
    \/ \E passes \in BOOLEAN : OnceRun(w, passes)
    \/ OnceSetPassed(w)
    \/ OnceExcept(w)
    \/ OnceFinally(w)

FairOnce == Init /\ [][NextOnce]_vars /\ \A w \in Workers : WF_vars(OnceStep(w))

(***************************************************************************)
(* C20: with the workers each invoking run_only_once a bounded number of   *)
(* times against one coordinator, under weak fairness of each worker's     *)
(* steps, every invocation eventually returns or raises (no worker polls   *)
(* for the recipe lock forever), and eventually no recipe lock is left in  *)
(* the lock table: from some point on every worker is outside the recipe   *)
(* and the lock table is empty.                                            *)
(***************************************************************************)
C20_EveryInvocationEnds ==
    <>[]( (\A w \in Workers : pc[w] = "idle") /\ locks = <<>> )

\* All workers invoked the recipe for the same keyword and all have returned.
C20_Witness ==
    /\ \A w \in Workers :
          /\ pc[w] = "idle"
          /\ result[w] = [recipe |-> "run_only_once", kw |-> "k1", out |-> "returned"]
    /\ executed["k1"] = 1
    /\ locks = <<>>

====
